---- MODULE Spec2Model ----
(***************************************************************************)
(* The record access layer of ai-notes-summarizer: the ten action handlers *)
(* of the actions module (createDocument ... listJobs) over the three      *)
(* tables NotesDocuments, NoteSummaries and SummaryJobs.                   *)
(*                                                                         *)
(* A handler is one step per database statement it awaits, so that other   *)
(* requests can run between the ownership lookup and the write.  A row is  *)
(* a record, a table a set of rows, a result array the set of its rows.    *)
(* An optional number (z.number().int().optional(), or an optional column) *)
(* is the empty set when absent and {n} when it is n; an optional text or  *)
(* json value is Undefined in an input and Null in a column.               *)
(***************************************************************************)
EXTENDS Integers, FiniteSets, Sequences, TLC

VARIABLES
    documents,    \* table NotesDocuments
    summaries,    \* table NoteSummaries
    jobs,         \* table SummaryJobs
    docSeq,       \* last id the store gave to a NotesDocuments row
    summarySeq,   \* last id given to a NoteSummaries row
    jobSeq,       \* last id given to a SummaryJobs row
    foreignKeys,  \* whether the store enforces the declared references
    now,          \* the clock read by new Date()
    proc,         \* per request slot: the handler awaiting a statement, its locals
    resp,         \* the call that finished last and what it returned or threw
    created,      \* history: <<id, owner>> of every document ever inserted
    deleted       \* history: ids of the documents removed by deleteDocument

vars == <<documents, summaries, jobs, docSeq, summarySeq, jobSeq, foreignKeys,
          now, proc, resp, created, deleted>>

tables == <<documents, summaries, jobs>>
sequences == <<docSeq, summarySeq, jobSeq>>
history == <<created, deleted>>

----------------------------------------------------------------------------
(* Bounds of the model *)

MaxDocs == 2
MaxSummaries == 1
MaxJobs == 1
MaxTime == 1
\* documents created where a specification is about one document or about jobs
FewDocs == 1

Users == {"u1", "u2"}
NoUser == "anonymous"
Callers == Users \cup {NoUser}
Procs == {1, 2}

Undefined == "undefined"
Null == "null"

\* ids a caller may send: 0, which the store never gives, and every id it can give
IdInputs == 0 .. MaxDocs
JobIdInputs == 0 .. MaxJobs
\* the same where at most FewDocs documents are created
FewIdInputs == 0 .. FewDocs

----------------------------------------------------------------------------
(* Values *)

\* an optional value left out of an insert is stored as NULL
Nullable(v) == IF v = Undefined THEN Null ELSE v

\* input.x ?? dflt
OrDefault(v, dflt) == IF v = Undefined THEN dflt ELSE v

\* JavaScript truthiness of an optional number: undefined, null and 0 are falsy
Truthy(opt) == opt # {} /\ opt # {0}

requireUser(u) == u # NoUser

Ids(rows) == {r.id : r \in rows}

----------------------------------------------------------------------------
(* Responses and request slots *)

Ok(docs, sums, js) ==
    [code |-> "OK", documents |-> docs, summaries |-> sums, jobs |-> js]

Err(code) ==
    [code |-> code, documents |-> {}, summaries |-> {}, jobs |-> {}]

NoCall == [op |-> "none", user |-> NoUser, input |-> <<>>]

NoResp == [op |-> "none", user |-> NoUser, input |-> <<>>, result |-> Err("NONE")]

Idle == [pc |-> "idle", call |-> NoCall, local |-> {}]

\* a slot can take a new request when no handler is running in it
Ready(p) == proc[p] = Idle

\* the handler returns r, or throws the error r
Finish(p, op, u, in, r) ==
    /\ proc' = [proc EXCEPT ![p] = Idle]
    /\ resp' = [op |-> op, user |-> u, input |-> in, result |-> r]

\* the handler awaits its next statement, keeping the locals it still uses
Await(p, op, u, in, pc, local) ==
    /\ proc' = [proc EXCEPT ![p] =
                  [pc |-> pc, call |-> [op |-> op, user |-> u, input |-> in],
                   local |-> local]]
    /\ resp' = NoResp

----------------------------------------------------------------------------
(* The store *)

\* the select without its where clause
EveryDocument(u) == documents

\* select().from(NotesDocuments).where(eq(ownerId, user.id))
OwnedDocuments(u) == {d \in documents : d.ownerId = u}

\* the lookup by id alone, without the ownerId condition
DocumentById(id, u) == {d \in documents : d.id = id}

\* ... where(and(eq(NotesDocuments.id, id), eq(NotesDocuments.ownerId, user.id)))
OwnedDocument(id, u) == {d \in documents : d.id = id /\ d.ownerId = u}

\* rows of NoteSummaries and SummaryJobs whose documentId references document id
Referencing(id) ==
    {s.id : s \in {s \in summaries : s.documentId = id}}
        \cup {j.id : j \in {j \in jobs : j.documentId = {id}}}

\* a non-null reference must name a row of NotesDocuments when the store enforces it
ReferenceOk(opt) == ~foreignKeys \/ opt \subseteq Ids(documents)

Tick ==
    /\ now < MaxTime
    /\ now' = now + 1
    /\ UNCHANGED <<tables, sequences, foreignKeys, proc, resp, history>>

----------------------------------------------------------------------------
(* Documents *)

createDocument(p, u, in) ==
    /\ Ready(p)
    /\ IF ~requireUser(u)
       THEN /\ Finish(p, "createDocument", u, in, Err("UNAUTHORIZED"))
            /\ UNCHANGED <<tables, sequences, foreignKeys, now, history>>
       ELSE /\ docSeq < MaxDocs
            /\ LET document ==
                       [id |-> docSeq + 1,
                        ownerId |-> u,
                        title |-> in.title,
                        content |-> in.content,
                        sourceType |-> OrDefault(in.sourceType, "manual"),
                        sourceMeta |-> Nullable(in.sourceMeta),
                        tags |-> Nullable(in.tags),
                        createdAt |-> now,
                        updatedAt |-> now]
               IN  /\ documents' = documents \cup {document}
                   /\ docSeq' = docSeq + 1
                   /\ created' = created \cup {<<document.id, u>>}
                   /\ Finish(p, "createDocument", u, in, Ok({document}, {}, {}))
            /\ UNCHANGED <<summaries, jobs, summarySeq, jobSeq, foreignKeys, now, deleted>>

\* the keys of rest whose value is not undefined
updateData(in) ==
    {k \in {"title", "content", "sourceType", "sourceMeta", "tags"} : in[k] # Undefined}

\* .set({...rest, updatedAt: new Date()}): the fields left out written as well
SetEveryField(d, in, t) ==
    [d EXCEPT !.title = Nullable(in.title),
              !.content = Nullable(in.content),
              !.sourceType = Nullable(in.sourceType),
              !.sourceMeta = Nullable(in.sourceMeta),
              !.tags = Nullable(in.tags),
              !.updatedAt = t]

\* .set({...updateData, updatedAt: new Date()}) on one row
SetDocument(d, in, t) ==
    [d EXCEPT !.title = IF "title" \in updateData(in) THEN in.title ELSE @,
              !.content = IF "content" \in updateData(in) THEN in.content ELSE @,
              !.sourceType = IF "sourceType" \in updateData(in) THEN in.sourceType ELSE @,
              !.sourceMeta = IF "sourceMeta" \in updateData(in) THEN in.sourceMeta ELSE @,
              !.tags = IF "tags" \in updateData(in) THEN in.tags ELSE @,
              !.updatedAt = t]

\* updateDocument up to its first await: the ownership lookup
updateDocumentSelect(p, u, in) ==
    /\ Ready(p)
    /\ UNCHANGED <<tables, sequences, foreignKeys, now, history>>
    /\ IF ~requireUser(u)
       THEN Finish(p, "updateDocument", u, in, Err("UNAUTHORIZED"))
       ELSE LET existing == OwnedDocument(in.id, u)
            IN  IF existing = {}
                THEN Finish(p, "updateDocument", u, in, Err("NOT_FOUND"))
                ELSE IF updateData(in) = {}
                THEN Finish(p, "updateDocument", u, in, Ok(existing, {}, {}))
                ELSE Await(p, "updateDocument", u, in, "update", {})

\* updateDocument's update ... returning(), and its return
updateDocumentUpdate(p) ==
    /\ proc[p].pc = "update"
    /\ proc[p].call.op = "updateDocument"
    /\ LET u == proc[p].call.user
           in == proc[p].call.input
           hit == OwnedDocument(in.id, u)
       IN  /\ documents' = (documents \ hit) \cup {SetDocument(d, in, now) : d \in hit}
           /\ Finish(p, "updateDocument", u, in,
                     Ok({SetDocument(d, in, now) : d \in hit}, {}, {}))
    /\ UNCHANGED <<summaries, jobs, sequences, foreignKeys, now, history>>

deleteDocument(p, u, in) ==
    /\ Ready(p)
    /\ UNCHANGED <<summaries, jobs, sequences, foreignKeys, now, created>>
    /\ IF ~requireUser(u)
       THEN /\ Finish(p, "deleteDocument", u, in, Err("UNAUTHORIZED"))
            /\ UNCHANGED <<documents, deleted>>
       ELSE LET hit == OwnedDocument(in.id, u)
            IN  IF foreignKeys /\ \E d \in hit : Referencing(d.id) # {}
                THEN /\ Finish(p, "deleteDocument", u, in, Err("INTERNAL"))
                     /\ UNCHANGED <<documents, deleted>>
                ELSE /\ documents' = documents \ hit
                     /\ deleted' = deleted \cup Ids(hit)
                     /\ Finish(p, "deleteDocument", u, in,
                               IF hit = {} THEN Err("NOT_FOUND") ELSE Ok(hit, {}, {}))

listDocuments(p, u) ==
    /\ Ready(p)
    /\ UNCHANGED <<tables, sequences, foreignKeys, now, history>>
    /\ IF ~requireUser(u)
       THEN Finish(p, "listDocuments", u, <<>>, Err("UNAUTHORIZED"))
       ELSE Finish(p, "listDocuments", u, <<>>, Ok(OwnedDocuments(u), {}, {}))

----------------------------------------------------------------------------
(* Summaries *)

\* getDocumentWithSummaries up to its first await: the ownership lookup
getDocumentWithSummariesSelect(p, u, in) ==
    /\ Ready(p)
    /\ UNCHANGED <<tables, sequences, foreignKeys, now, history>>
    /\ IF ~requireUser(u)
       THEN Finish(p, "getDocumentWithSummaries", u, in, Err("UNAUTHORIZED"))
       ELSE LET document == OwnedDocument(in.id, u)
            IN  IF document = {}
                THEN Finish(p, "getDocumentWithSummaries", u, in, Err("NOT_FOUND"))
                ELSE Await(p, "getDocumentWithSummaries", u, in, "summaries", document)

\* the select of summaries without its where clause
EverySummary(id) == summaries

\* select().from(NoteSummaries).where(eq(NoteSummaries.documentId, id))
SummariesOfDocument(id) == {s \in summaries : s.documentId = id}

\* getDocumentWithSummaries' second select, and its return
getDocumentWithSummariesSummaries(p) ==
    /\ proc[p].pc = "summaries"
    /\ proc[p].call.op = "getDocumentWithSummaries"
    /\ UNCHANGED <<tables, sequences, foreignKeys, now, history>>
    /\ LET u == proc[p].call.user
           in == proc[p].call.input
       IN  Finish(p, "getDocumentWithSummaries", u, in,
                  Ok(proc[p].local, SummariesOfDocument(in.id), {}))

\* createSummary up to its first await: the ownership lookup
createSummarySelect(p, u, in) ==
    /\ Ready(p)
    /\ UNCHANGED <<tables, sequences, foreignKeys, now, history>>
    /\ IF ~requireUser(u)
       THEN Finish(p, "createSummary", u, in, Err("UNAUTHORIZED"))
       ELSE LET document == OwnedDocument(in.documentId, u)
            IN  IF document = {}
                THEN Finish(p, "createSummary", u, in, Err("NOT_FOUND"))
                ELSE /\ summarySeq < MaxSummaries
                     /\ Await(p, "createSummary", u, in, "insert", {})

\* createSummary's insert ... returning(), and its return
createSummaryInsert(p) ==
    /\ proc[p].pc = "insert"
    /\ proc[p].call.op = "createSummary"
    /\ UNCHANGED <<documents, jobs, docSeq, jobSeq, foreignKeys, now, history>>
    /\ LET u == proc[p].call.user
           in == proc[p].call.input
           summary ==
             [id |-> summarySeq + 1,
              documentId |-> in.documentId,
              ownerId |-> u,
              summaryType |-> OrDefault(in.summaryType, "short"),
              content |-> in.content,
              originalLength |-> in.originalLength,
              summaryLength |-> in.summaryLength,
              meta |-> Nullable(in.meta),
              createdAt |-> now]
       IN  IF ~ReferenceOk({in.documentId})
           THEN /\ Finish(p, "createSummary", u, in, Err("INTERNAL"))
                /\ UNCHANGED <<summaries, summarySeq>>
           ELSE /\ summarySeq < MaxSummaries
                /\ summaries' = summaries \cup {summary}
                /\ summarySeq' = summarySeq + 1
                /\ Finish(p, "createSummary", u, in, Ok({}, {summary}, {}))

\* the caller's documents, narrowed to input.documentId when that is truthy
AccessibleDocuments(u, documentId) ==
    IF Truthy(documentId)
    THEN {doc \in OwnedDocuments(u) : doc.id \in documentId}
    ELSE OwnedDocuments(u)

\* listSummaries up to its second await: the caller's documents, narrowed
listSummariesDocuments(p, u, in) ==
    /\ Ready(p)
    /\ UNCHANGED <<tables, sequences, foreignKeys, now, history>>
    /\ IF ~requireUser(u)
       THEN Finish(p, "listSummaries", u, in, Err("UNAUTHORIZED"))
       ELSE LET docs == AccessibleDocuments(u, in.documentId)
            IN  IF Truthy(in.documentId) /\ docs = {}
                THEN Finish(p, "listSummaries", u, in, Err("NOT_FOUND"))
                ELSE Await(p, "listSummaries", u, in, "summaries", docs)

\* listSummaries' select of the caller's summaries, the filter, and its return
listSummariesSummaries(p) ==
    /\ proc[p].pc = "summaries"
    /\ proc[p].call.op = "listSummaries"
    /\ UNCHANGED <<tables, sequences, foreignKeys, now, history>>
    /\ LET u == proc[p].call.user
           docIds == Ids(proc[p].local)
           filtered == {s \in {s \in summaries : s.ownerId = u} : s.documentId \in docIds}
       IN  Finish(p, "listSummaries", u, proc[p].call.input, Ok({}, filtered, {}))

----------------------------------------------------------------------------
(* Jobs *)

JobRow(u, in) ==
    [id |-> jobSeq + 1,
     documentId |-> in.documentId,
     ownerId |-> u,
     jobType |-> OrDefault(in.jobType, "summary"),
     input |-> Nullable(in.input),
     output |-> Nullable(in.output),
     status |-> OrDefault(in.status, "pending"),
     createdAt |-> now]

\* insert(SummaryJobs) ... returning(), and the handler's return
InsertJob(p, u, in) ==
    IF ~ReferenceOk(in.documentId)
    THEN /\ Finish(p, "createJob", u, in, Err("INTERNAL"))
         /\ UNCHANGED <<jobs, jobSeq>>
    ELSE /\ jobSeq < MaxJobs
         /\ jobs' = jobs \cup {JobRow(u, in)}
         /\ jobSeq' = jobSeq + 1
         /\ Finish(p, "createJob", u, in, Ok({}, {}, {JobRow(u, in)}))

\* createJob up to its first await: the ownership lookup when input.documentId
\* is truthy; without the lookup, the whole handler
createJob(p, u, in) ==
    /\ Ready(p)
    /\ UNCHANGED <<documents, summaries, docSeq, summarySeq, foreignKeys, now, history>>
    /\ IF ~requireUser(u)
       THEN /\ Finish(p, "createJob", u, in, Err("UNAUTHORIZED"))
            /\ UNCHANGED <<jobs, jobSeq>>
       ELSE IF Truthy(in.documentId)
       THEN /\ UNCHANGED <<jobs, jobSeq>>
            /\ IF \A id \in in.documentId : OwnedDocument(id, u) = {}
               THEN Finish(p, "createJob", u, in, Err("NOT_FOUND"))
               ELSE /\ jobSeq < MaxJobs
                    /\ Await(p, "createJob", u, in, "insert", {})
       ELSE InsertJob(p, u, in)

\* createJob's insert after the lookup, and its return
createJobInsert(p) ==
    /\ proc[p].pc = "insert"
    /\ proc[p].call.op = "createJob"
    /\ UNCHANGED <<documents, summaries, docSeq, summarySeq, foreignKeys, now, history>>
    /\ InsertJob(p, proc[p].call.user, proc[p].call.input)

\* the lookup by id alone, without the ownerId condition
JobById(id, u) == {j \in jobs : j.id = id}

\* ... where(and(eq(SummaryJobs.id, id), eq(SummaryJobs.ownerId, user.id)))
OwnedJob(id, u) == {j \in jobs : j.id = id /\ j.ownerId = u}

\* updateJob up to its first await: the ownership lookup
updateJobSelect(p, u, in) ==
    /\ Ready(p)
    /\ UNCHANGED <<tables, sequences, foreignKeys, now, history>>
    /\ IF ~requireUser(u)
       THEN Finish(p, "updateJob", u, in, Err("UNAUTHORIZED"))
       ELSE LET existing == OwnedJob(in.id, u)
            IN  IF existing = {}
                THEN Finish(p, "updateJob", u, in, Err("NOT_FOUND"))
                ELSE IF in.output = Undefined /\ in.status = Undefined
                THEN Finish(p, "updateJob", u, in, Ok({}, {}, existing))
                ELSE Await(p, "updateJob", u, in, "update", {})

\* .set(updateData) on one row
SetJob(j, in) ==
    [j EXCEPT !.output = IF in.output # Undefined THEN in.output ELSE @,
              !.status = IF in.status # Undefined THEN in.status ELSE @]

\* update(SummaryJobs) ... where(eq(SummaryJobs.id, input.id))
JobsToUpdate(id) == {j \in jobs : j.id = id}

\* updateJob's update ... returning(), and its return
updateJobUpdate(p) ==
    /\ proc[p].pc = "update"
    /\ proc[p].call.op = "updateJob"
    /\ UNCHANGED <<documents, summaries, sequences, foreignKeys, now, history>>
    /\ LET u == proc[p].call.user
           in == proc[p].call.input
           hit == JobsToUpdate(in.id)
       IN  /\ jobs' = (jobs \ hit) \cup {SetJob(j, in) : j \in hit}
           /\ Finish(p, "updateJob", u, in, Ok({}, {}, {SetJob(j, in) : j \in hit}))

\* listJobs up to its second await: the caller's documents, narrowed
listJobsDocuments(p, u, in) ==
    /\ Ready(p)
    /\ UNCHANGED <<tables, sequences, foreignKeys, now, history>>
    /\ IF ~requireUser(u)
       THEN Finish(p, "listJobs", u, in, Err("UNAUTHORIZED"))
       ELSE LET docs == AccessibleDocuments(u, in.documentId)
            IN  IF Truthy(in.documentId) /\ docs = {}
                THEN Finish(p, "listJobs", u, in, Err("NOT_FOUND"))
                ELSE Await(p, "listJobs", u, in, "jobs", docs)

\* the filter of listJobs over the caller's jobs
JobMatches(job, allowedDocIds, status) ==
    LET matchesDoc == IF Truthy(job.documentId)
                      THEN job.documentId \subseteq allowedDocIds
                      ELSE TRUE
        matchesStatus == IF status # Undefined THEN job.status = status ELSE TRUE
    IN  matchesDoc /\ matchesStatus

\* listJobs' select of the caller's jobs, the filter, and its return
listJobsJobs(p) ==
    /\ proc[p].pc = "jobs"
    /\ proc[p].call.op = "listJobs"
    /\ UNCHANGED <<tables, sequences, foreignKeys, now, history>>
    /\ LET u == proc[p].call.user
           in == proc[p].call.input
           allowedDocIds == Ids(proc[p].local)
           filtered == {job \in {j \in jobs : j.ownerId = u} :
                          JobMatches(job, allowedDocIds, in.status)}
       IN  Finish(p, "listJobs", u, in, Ok({}, {}, filtered))

----------------------------------------------------------------------------
(* The inputs the handlers are called with *)

Optional(S) == {{}} \cup {{x} : x \in S}

NewDocuments ==
    [title : {"t1"}, content : {"c1"}, sourceType : {Undefined},
     sourceMeta : {Undefined}, tags : {Undefined}]

DocumentUpdates ==
    [id : IdInputs, title : {Undefined, "t2"}, content : {Undefined},
     sourceType : {Undefined}, sourceMeta : {Undefined}, tags : {Undefined}]

NoFields ==
    [title |-> Undefined, content |-> Undefined, sourceType |-> Undefined,
     sourceMeta |-> Undefined, tags |-> Undefined]

\* no field, one field, two fields, all five fields supplied
SuppliedFields ==
    {NoFields,
     [NoFields EXCEPT !.title = "t2"],
     [NoFields EXCEPT !.content = "c2", !.sourceType = "web"],
     [NoFields EXCEPT !.sourceMeta = "m2", !.tags = "g2"],
     [title |-> "t2", content |-> "c2", sourceType |-> "web",
      sourceMeta |-> "m2", tags |-> "g2"]}

AnyDocumentUpdates ==
    {[id |-> i, title |-> f.title, content |-> f.content, sourceType |-> f.sourceType,
      sourceMeta |-> f.sourceMeta, tags |-> f.tags] : i \in FewIdInputs, f \in SuppliedFields}

DocumentIds == [id : IdInputs]

FewDocumentIds == [id : FewIdInputs]

NewSummaries ==
    [documentId : IdInputs, summaryType : {Undefined}, content : {"s1"},
     originalLength : {{}}, summaryLength : {{}}, meta : {Undefined}]

DocumentFilters == [documentId : Optional(IdInputs)]

NewJobs ==
    [documentId : Optional(FewIdInputs), jobType : {Undefined}, input : {Undefined},
     output : {Undefined}, status : {Undefined}]

NewJobsWithStatus ==
    [documentId : Optional(IdInputs), jobType : {Undefined}, input : {Undefined},
     output : {Undefined}, status : {Undefined, "failed"}]

JobUpdates ==
    [id : JobIdInputs, output : {Undefined, "o2"}, status : {Undefined, "completed"}]

JobFilters ==
    [documentId : Optional(IdInputs), status : {Undefined, "failed"}]

----------------------------------------------------------------------------
(* Specifications *)

Init ==
    /\ documents = {}
    /\ summaries = {}
    /\ jobs = {}
    /\ docSeq = 0
    /\ summarySeq = 0
    /\ jobSeq = 0
    /\ foreignKeys \in BOOLEAN
    /\ now = 0
    /\ proc = [p \in Procs |-> Idle]
    /\ resp = NoResp
    /\ created = {}
    /\ deleted = {}

\* Concurrent requests on the documents: the handlers of the requests in
\* flight interleave statement by statement.
DocNext ==
    \E p \in Procs :
         \/ \E u \in Callers, in \in NewDocuments : createDocument(p, u, in)
         \/ \E u \in Callers, in \in DocumentUpdates : updateDocumentSelect(p, u, in)
         \/ updateDocumentUpdate(p)
         \/ \E u \in Callers, in \in DocumentIds : deleteDocument(p, u, in)
         \/ \E u \in Callers : listDocuments(p, u)

DocSpec == Init /\ [][DocNext]_vars

\* One client editing documents, a request sent when the one before has
\* returned, with every combination of fields and time passing.
EditNext ==
    \/ Tick
    \/ \E p \in {1} :
         \/ \E u \in Callers, in \in NewDocuments :
              docSeq < FewDocs /\ createDocument(p, u, in)
         \/ \E u \in Callers, in \in AnyDocumentUpdates : updateDocumentSelect(p, u, in)
         \/ updateDocumentUpdate(p)
         \/ \E u \in Callers, in \in FewDocumentIds : deleteDocument(p, u, in)

EditSpec == Init /\ [][EditNext]_vars

\* Concurrent requests on documents and their summaries.
SummaryNext ==
    \E p \in Procs :
         \/ \E u \in Callers, in \in NewDocuments : createDocument(p, u, in)
         \/ \E u \in Callers, in \in DocumentIds : deleteDocument(p, u, in)
         \/ \E u \in Callers, in \in DocumentIds : getDocumentWithSummariesSelect(p, u, in)
         \/ getDocumentWithSummariesSummaries(p)
         \/ \E u \in Callers, in \in NewSummaries : createSummarySelect(p, u, in)
         \/ createSummaryInsert(p)
         \/ \E u \in Callers, in \in DocumentFilters : listSummariesDocuments(p, u, in)
         \/ listSummariesSummaries(p)

SummarySpec == Init /\ [][SummaryNext]_vars

\* Concurrent requests on documents and jobs.
JobNext ==
    \/ Tick
    \/ \E p \in Procs :
         \/ \E u \in Callers, in \in NewDocuments :
              docSeq < FewDocs /\ createDocument(p, u, in)
         \/ \E u \in Callers, in \in FewDocumentIds : deleteDocument(p, u, in)
         \/ \E u \in Callers, in \in NewJobs : createJob(p, u, in)
         \/ createJobInsert(p)
         \/ \E u \in Callers, in \in JobUpdates : updateJobSelect(p, u, in)
         \/ updateJobUpdate(p)

JobSpec == Init /\ [][JobNext]_vars

\* One client, a request sent when the one before has returned, on all three
\* tables.
Next ==
    \E p \in {1} :
         \/ \E u \in Callers, in \in NewDocuments : createDocument(p, u, in)
         \/ \E u \in Callers, in \in DocumentIds : deleteDocument(p, u, in)
         \/ \E u \in Callers, in \in NewSummaries : createSummarySelect(p, u, in)
         \/ createSummaryInsert(p)
         \/ \E u \in Callers, in \in NewJobsWithStatus : createJob(p, u, in)
         \/ createJobInsert(p)
         \/ \E u \in Callers, in \in JobFilters : listJobsDocuments(p, u, in)
         \/ listJobsJobs(p)

Spec == Init /\ [][Next]_vars

----------------------------------------------------------------------------
(* History *)

\* ids of the documents user u created
CreatedBy(u) == {c[1] : c \in {c \in created : c[2] = u}}

\* the call a step of slot p has taken up: the one it awaits in, or the one it
\* has answered
Taken(p) ==
    IF proc'[p] # Idle
    THEN proc'[p].call
    ELSE [op |-> resp'.op, user |-> resp'.user, input |-> resp'.input]

----------------------------------------------------------------------------
(* Properties *)

\* C1: listDocuments called by user U returns every document U created and has
\* not since deleted, and no document created by another user.
C1_ListDocumentsOwn ==
    (resp.op = "listDocuments" /\ resp.result.code = "OK") =>
        /\ (CreatedBy(resp.user) \ deleted) \subseteq Ids(resp.result.documents)
        /\ \A v \in Users \ {resp.user} :
             Ids(resp.result.documents) \cap CreatedBy(v) = {}

\* U has listed a document of its own while a document of another user is stored
C1_Witness ==
    /\ resp.op = "listDocuments"
    /\ resp.result.code = "OK"
    /\ resp.result.documents # {}
    /\ \E d \in documents : d.ownerId # resp.user

\* C2: deleteDocument with an id that names no document, or a document of
\* another owner, fails NOT_FOUND and leaves the three tables unchanged.
C2_DeleteNotOwned ==
    [][(/\ resp'.op = "deleteDocument"
        /\ requireUser(resp'.user)
        /\ \E p \in Procs : deleteDocument(p, resp'.user, resp'.input)
        /\ ~\E d \in documents : d.id = resp'.input.id /\ d.ownerId = resp'.user)
       => (resp'.result.code = "NOT_FOUND" /\ UNCHANGED tables)]_vars

\* a delete of another user's document has failed, with rows in all three tables
C2_Witness ==
    /\ resp.op = "deleteDocument"
    /\ resp.result.code = "NOT_FOUND"
    /\ \E d \in documents : d.id = resp.input.id /\ d.ownerId # resp.user
    /\ resp.user \in Users
    /\ summaries # {}
    /\ jobs # {}

\* C3: createSummary with a documentId that is not the id of a document the
\* caller owns fails NOT_FOUND at the lookup, and inserts no summary row.
C3_CreateSummaryNotOwned ==
    [][\A p \in Procs :
         (/\ Ready(p)
          /\ Taken(p).op = "createSummary"
          /\ requireUser(Taken(p).user)
          /\ createSummarySelect(p, Taken(p).user, Taken(p).input)
          /\ ~\E d \in documents :
                d.id = Taken(p).input.documentId /\ d.ownerId = Taken(p).user)
         => (/\ resp'.op = "createSummary"
             /\ resp'.result.code = "NOT_FOUND"
             /\ proc'[p] = Idle
             /\ UNCHANGED <<summaries, summarySeq>>)]_vars

\* createSummary for a stored document of another user has failed
C3_Witness ==
    /\ resp.op = "createSummary"
    /\ resp.result.code = "NOT_FOUND"
    /\ requireUser(resp.user)
    /\ \E d \in documents : d.id = resp.input.documentId /\ d.ownerId # resp.user

\* C4: listSummaries with any documentId, 0 included, that is not the id of a
\* document the caller owns fails NOT_FOUND and returns no list.
C4_ListSummariesNotOwned ==
    [][\A p \in Procs :
         (/\ Ready(p)
          /\ Taken(p).op = "listSummaries"
          /\ requireUser(Taken(p).user)
          /\ listSummariesDocuments(p, Taken(p).user, Taken(p).input)
          /\ Taken(p).input.documentId # {}
          /\ ~\E d \in documents :
                d.id \in Taken(p).input.documentId /\ d.ownerId = Taken(p).user)
         => (resp'.op = "listSummaries" /\ resp'.result.code = "NOT_FOUND")]_vars

\* C5: listJobs by user U with a status filter s and no documentId filter
\* returns exactly the jobs of U with status s whose documentId is unset or the
\* id of a document U owns.
C5_ListJobsByStatus ==
    (/\ resp.op = "listJobs"
     /\ resp.result.code = "OK"
     /\ resp.input.documentId = {}
     /\ resp.input.status # Undefined)
    => resp.result.jobs =
         {j \in jobs :
            /\ j.ownerId = resp.user
            /\ j.status = resp.input.status
            /\ \/ j.documentId = {}
               \/ \E d \in documents : d.ownerId = resp.user /\ j.documentId = {d.id}}

\* the row updateDocument must leave for row d when called with input in at time t
Merged(d, in, t) ==
    [id |-> d.id,
     ownerId |-> d.ownerId,
     title |-> IF in.title = Undefined THEN d.title ELSE in.title,
     content |-> IF in.content = Undefined THEN d.content ELSE in.content,
     sourceType |-> IF in.sourceType = Undefined THEN d.sourceType ELSE in.sourceType,
     sourceMeta |-> IF in.sourceMeta = Undefined THEN d.sourceMeta ELSE in.sourceMeta,
     tags |-> IF in.tags = Undefined THEN d.tags ELSE in.tags,
     createdAt |-> d.createdAt,
     updatedAt |-> t]

\* C6: updateDocument by the owner with only an id returns the existing row and
\* changes nothing, updatedAt included; with a field supplied it overwrites the
\* supplied fields, sets updatedAt to the time of the update and keeps id,
\* ownerId, createdAt and the fields left out.
C6_UpdateDocumentFrame ==
    [][/\ \A p \in Procs :
            (/\ resp'.op = "updateDocument"
             /\ resp'.input \in {[id |-> i, title |-> NoFields.title,
                                  content |-> NoFields.content,
                                  sourceType |-> NoFields.sourceType,
                                  sourceMeta |-> NoFields.sourceMeta,
                                  tags |-> NoFields.tags] : i \in IdInputs}
             /\ updateDocumentSelect(p, resp'.user, resp'.input)
             /\ \E d \in documents : d.id = resp'.input.id /\ d.ownerId = resp'.user)
            => (/\ resp'.result.code = "OK"
                /\ resp'.result.documents =
                     {d \in documents : d.id = resp'.input.id /\ d.ownerId = resp'.user}
                /\ UNCHANGED tables)
       /\ \A p \in Procs :
            updateDocumentUpdate(p)
            => \E d \in documents :
                 /\ d.id = proc[p].call.input.id
                 /\ d.ownerId = proc[p].call.user
                 /\ documents' = (documents \ {d})
                                   \cup {Merged(d, proc[p].call.input, now)}
                 /\ resp'.result = Ok({Merged(d, proc[p].call.input, now)}, {}, {})
                 /\ UNCHANGED <<summaries, jobs>>]_vars

\* an update of the title alone has returned the row with the new title, the
\* old content, the old createdAt and a later updatedAt
C6_Witness ==
    /\ resp.op = "updateDocument"
    /\ resp.result.code = "OK"
    /\ resp.input.title = "t2"
    /\ resp.input.content = Undefined
    /\ \E d \in resp.result.documents :
         /\ d \in documents
         /\ d.title = "t2"
         /\ d.content = "c1"
         /\ d.createdAt < d.updatedAt

\* C7: a summary whose documentId names a stored document has that document's
\* ownerId, and getDocumentWithSummaries returns to U no summary of another owner.
C7_SummaryOwner ==
    /\ \A s \in summaries, d \in documents :
         s.documentId = d.id => s.ownerId = d.ownerId
    /\ (resp.op = "getDocumentWithSummaries" /\ resp.result.code = "OK")
         => \A s \in resp.result.summaries : s.ownerId = resp.user

\* getDocumentWithSummaries has returned a summary while another user has a document
C7_Witness ==
    /\ resp.op = "getDocumentWithSummaries"
    /\ resp.result.code = "OK"
    /\ resp.result.summaries # {}
    /\ \E d \in documents : d.ownerId # resp.user

\* C8: an updateDocument call with a field supplied fails NOT_FOUND or returns
\* the row with the requested id, the caller's ownerId and the supplied values.
C8_UpdateReturnsRow ==
    (/\ resp.op = "updateDocument"
     /\ requireUser(resp.user)
     /\ \E k \in DOMAIN NoFields : resp.input[k] # Undefined)
    => \/ resp.result.code = "NOT_FOUND"
       \/ /\ resp.result.code = "OK"
          /\ \E d \in resp.result.documents :
               /\ d.id = resp.input.id
               /\ d.ownerId = resp.user
               /\ \A k \in DOMAIN NoFields :
                    resp.input[k] # Undefined => d[k] = resp.input[k]

\* C9: a summary row is inserted only when, at the insert, the document its
\* documentId names is stored and owned by the caller.
C9_InsertHasDocument ==
    [][\A s \in summaries' \ summaries :
         \E d \in documents : d.id = s.documentId /\ d.ownerId = s.ownerId]_vars

\* C10: a job row is never removed; its id, ownerId, documentId, jobType, input
\* and createdAt never change; output and status change only in the update of an
\* updateJob call by the job's owner; updateJob by another user fails NOT_FOUND
\* and changes no job.
C10_JobFrame ==
    [][/\ \A j \in jobs :
            \E k \in jobs' :
              /\ k.id = j.id
              /\ k.ownerId = j.ownerId
              /\ k.documentId = j.documentId
              /\ k.jobType = j.jobType
              /\ k.input = j.input
              /\ k.createdAt = j.createdAt
              /\ (k.output # j.output \/ k.status # j.status)
                   => \E p \in Procs :
                        /\ proc[p].pc = "update"
                        /\ proc[p].call.op = "updateJob"
                        /\ proc[p].call.user = j.ownerId
                        /\ proc[p].call.input.id = j.id
                        /\ proc'[p] = Idle
       /\ \A p \in Procs :
            (/\ Ready(p)
             /\ Taken(p).op = "updateJob"
             /\ requireUser(Taken(p).user)
             /\ updateJobSelect(p, Taken(p).user, Taken(p).input)
             /\ \E j \in jobs : j.id = Taken(p).input.id /\ j.ownerId # Taken(p).user)
            => (/\ resp'.op = "updateJob"
                /\ resp'.result.code = "NOT_FOUND"
                /\ proc'[p] = Idle
                /\ jobs' = jobs)]_vars

\* updateJob by another user has failed on a job its owner had completed
C10_Witness ==
    /\ resp.op = "updateJob"
    /\ resp.result.code = "NOT_FOUND"
    /\ requireUser(resp.user)
    /\ \E j \in jobs :
         /\ j.id = resp.input.id
         /\ j.ownerId # resp.user
         /\ j.status = "completed"

====
